---- MODULE Spec2Model ----
(***************************************************************************)
(* The elapsed-time Timer of static/js/timer.js: its five fields, the      *)
(* single 'timerState' record it keeps in localStorage, the browser's      *)
(* table of live setInterval schedules, and the wall clock Date.now().     *)
(* Every method of the class is one action; a method that calls another    *)
(* (stop -> reset, resume -> start) is modelled with the callee's effect   *)
(* included.                                                               *)
(***************************************************************************)
EXTENDS Integers, Sequences, FiniteSets, Bags, TLC

VARIABLES
    startTime,      \* this.startTime   : epoch ms, or NullTime for null
    elapsedTime,    \* this.elapsedTime : ms
    isRunning,      \* this.isRunning
    interval,       \* this.interval    : setInterval handle, NoInterval for null
    taskId,         \* this.taskId      : a task id, or Null
    localStorage,   \* the item under key 'timerState': {} when absent, else {state}
    scheduled,      \* the page's live setInterval schedules: [id, due, fn]
    now,            \* Date.now()
    throwing,       \* the methods of window.localStorage that throw when called
    call,           \* the event handled by the last step: [op, arg]
    ret,            \* what that call returned: "true", "false" or "undefined"
    calls,          \* the notification callbacks that call invoked, in order
    ui,             \* the page of TimerUI: [form, value, running, pending]
    pc              \* "idle", or the line of stop, pause or reset last executed

timer == <<startTime, elapsedTime, isRunning, interval, taskId>>
vars  == <<startTime, elapsedTime, isRunning, interval, taskId,
           localStorage, scheduled, now, throwing, call, ret, calls, ui, pc>>

(* ------------------------------ bounds --------------------------------- *)
StartEpoch == 1000          \* Date.now() when the page is first loaded
Quantum    == 500           \* the clock advances in steps of this many ms
MaxQuanta  == 8             \* at most this many such steps past StartEpoch
MaxDays    == 1             \* at most this many whole-day jumps of the clock
MaxSchedules == 2           \* resumeTimer() is not called with this many schedules live
MaxInFlight == 2            \* at most this many fetch requests unanswered at a time
MaxActiveTimers == 1        \* at most this many active-timer elements on a page
TaskIds    == {"T1", "T2"}  \* the values of the task <select>

(* --------------------------- program constants ------------------------- *)
TickMs     == 1000
DayMs      == 24 * 60 * 60 * 1000
Null       == "null"        \* JavaScript null in a taskId position
NullTime   == -1            \* JavaScript null in the startTime position
NoInterval == 0             \* JavaScript null in the interval position
NoTask     == ""            \* the value of the <select> option that names no task
StorageMethods == {"setItem", "getItem", "removeItem"}
Unparsable == [text |-> "}{"]  \* an item under 'timerState' that is not JSON

\* null coerces to 0 in `Date.now() - this.startTime`
Num(t) == IF t = NullTime THEN 0 ELSE t

(* ------------------------------ callbacks ------------------------------ *)
OnStart(t)    == [cb |-> "onStart", taskId |-> t,    ms |-> 0]
OnStop(t, ms) == [cb |-> "onStop",  taskId |-> t,    ms |-> ms]
OnPause(t, ms) == [cb |-> "onPause", taskId |-> t,   ms |-> ms]
OnTick(ms)    == [cb |-> "onTick",  taskId |-> Null, ms |-> ms]

(* --------------------------- browser timers ---------------------------- *)
Handles(tbl) == {s.id : s \in tbl}

\* the handle setInterval returns: a positive integer not in use
FreshHandle(tbl) ==
    CHOOSE h \in 1..(Cardinality(tbl) + 1) :
        /\ h \notin Handles(tbl)
        /\ \A k \in 1..(h - 1) : k \in Handles(tbl)

\* setInterval(fn, 1000) at time t: both callbacks of the page, the Timer's
\* tick and updateDisplay, are scheduled every 1000 ms
setInterval(tbl, fn, t) ==
    tbl \cup {[id |-> FreshHandle(tbl), due |-> t + TickMs, fn |-> fn]}

clearInterval(tbl, h) == {s \in tbl : s.id # h}

\* after a firing the schedule is re-armed one period later, never in the past
Rearm(tbl, s, t) ==
    (tbl \ {s}) \cup {[id |-> s.id,
                       due |-> IF s.due + TickMs > t THEN s.due + TickMs ELSE t,
                       fn |-> s.fn]}

\* the schedules of the Timer's tick callback
TickSchedules == {s \in scheduled : s.fn = "tick"}

\* initializeActiveTimers() at time t on a page with n elements whose id
\* starts with 'active-timer-' and that carry data-start-time: one
\* setInterval(updateDisplay, 1000) for each, in document order
RECURSIVE initializeActiveTimers(_, _, _)
initializeActiveTimers(tbl, n, t) ==
    IF n = 0
    THEN tbl
    ELSE initializeActiveTimers(setInterval(tbl, "updateDisplay", t), n - 1, t)

(* ------------------------------ the store ------------------------------ *)
\* LocalStorage.set('timerState', v): JSON of numbers, booleans, strings and
\* null parses back to the same value; when setItem throws, the catch logs a
\* warning and the item stays as it was
LocalStorage_set(v) == IF "setItem" \in throwing THEN localStorage ELSE {v}

\* LocalStorage.remove('timerState'): when removeItem throws, the catch logs
\* a warning and the item stays
LocalStorage_remove == IF "removeItem" \in throwing THEN localStorage ELSE {}

\* LocalStorage.get('timerState'): the parsed item, or the default null ({})
\* when the key is absent or when getItem or JSON.parse throws
LocalStorage_get ==
    IF "getItem" \in throwing \/ localStorage = {Unparsable}
    THEN {}
    ELSE localStorage

\* the object saveState builds
State(st, e, r, t, n) ==
    [startTime |-> st, elapsedTime |-> e, isRunning |-> r, taskId |-> t,
     timestamp |-> n]

saveState(st, e, r, t, n) == LocalStorage_set(State(st, e, r, t, n))

clearState == LocalStorage_remove

\* the snapshot in the store, when there is one
Snapshot == CHOOSE v \in localStorage : TRUE

(* ------------------------------- Init ---------------------------------- *)
\* variant: the constructor adopts whatever snapshot the store holds
Constructor_adoptsAnySnapshot ==
    IF localStorage = {}
    THEN /\ startTime' = NullTime
         /\ elapsedTime' = 0
         /\ isRunning' = FALSE
         /\ interval' = NoInterval
         /\ taskId' = Null
    ELSE /\ startTime' = Snapshot.startTime
         /\ elapsedTime' = Snapshot.elapsedTime
         /\ isRunning' = Snapshot.isRunning
         /\ interval' = NoInterval
         /\ taskId' = Snapshot.taskId

\* JavaScript truthiness of a startTime: null and 0 are falsy
Truthy(t) == t # NullTime /\ t # 0

\* variant: the constructor ends in loadState(), after its test of isRunning
Constructor_loadsStateLast ==
    LET got == LocalStorage_get
        state == CHOOSE v \in got : TRUE
    IN  IF got # {} /\ state.isRunning /\ now - state.timestamp < DayMs
        THEN /\ startTime' = state.startTime
             /\ elapsedTime' = IF Truthy(state.startTime)
                               THEN now - state.startTime
                               ELSE state.elapsedTime
             /\ isRunning' = TRUE
             /\ interval' = NoInterval
             /\ taskId' = state.taskId
        ELSE /\ startTime' = NullTime
             /\ elapsedTime' = 0
             /\ isRunning' = FALSE
             /\ interval' = NoInterval
             /\ taskId' = Null

Constructor ==
    /\ startTime' = NullTime
    /\ elapsedTime' = 0
    /\ isRunning' = FALSE
    /\ interval' = NoInterval
    /\ taskId' = Null

Init ==
    /\ startTime = NullTime
    /\ elapsedTime = 0
    /\ isRunning = FALSE
    /\ interval = NoInterval
    /\ taskId = Null
    /\ localStorage = {}
    /\ scheduled = {}
    /\ now = StartEpoch
    /\ throwing = {}
    /\ call = [op |-> "new", arg |-> Null]
    /\ ret = "undefined"
    /\ calls = <<>>
    /\ ui = [form |-> TRUE, value |-> NoTask, running |-> FALSE,
             pending |-> EmptyBag]
    /\ pc = "idle"

(* ------------------------------ methods -------------------------------- *)
\* a guard that fails: return false, nothing else happens
Refuse ==
    /\ ret' = "false"
    /\ calls' = <<>>
    /\ UNCHANGED <<timer, localStorage, scheduled, now>>

\* variant: start forgets the retained elapsed time
start_fromNow(t) ==
    /\ taskId' = t
    /\ startTime' = now
    /\ isRunning' = TRUE
    /\ interval' = FreshHandle(scheduled)
    /\ scheduled' = setInterval(scheduled, "tick", now)
    /\ calls' = <<OnStart(t)>>
    /\ localStorage' = saveState(now, elapsedTime, TRUE, t, now)
    /\ ret' = "true"
    /\ UNCHANGED <<elapsedTime, now>>

\* variant: start notifies nobody
start_silent(t) ==
    /\ taskId' = t
    /\ startTime' = now - elapsedTime
    /\ isRunning' = TRUE
    /\ interval' = FreshHandle(scheduled)
    /\ scheduled' = setInterval(scheduled, "tick", now)
    /\ calls' = <<>>
    /\ localStorage' = saveState(now - elapsedTime, elapsedTime, TRUE, t, now)
    /\ ret' = "true"
    /\ UNCHANGED <<elapsedTime, now>>

\* variant: start does not write the snapshot
start_unsaved(t) ==
    /\ taskId' = t
    /\ startTime' = now - elapsedTime
    /\ isRunning' = TRUE
    /\ interval' = FreshHandle(scheduled)
    /\ scheduled' = setInterval(scheduled, "tick", now)
    /\ calls' = <<OnStart(t)>>
    /\ ret' = "true"
    /\ UNCHANGED <<elapsedTime, now, localStorage>>

\* variant: a start for another task than the retained one starts from zero
start_zeroForNewTask(t) ==
    /\ taskId' = t
    /\ elapsedTime' = IF t = taskId THEN elapsedTime ELSE 0
    /\ startTime' = now - elapsedTime'
    /\ isRunning' = TRUE
    /\ interval' = FreshHandle(scheduled)
    /\ scheduled' = setInterval(scheduled, "tick", now)
    /\ calls' = <<OnStart(t)>>
    /\ localStorage' = saveState(now - elapsedTime', elapsedTime', TRUE, t, now)
    /\ ret' = "true"
    /\ UNCHANGED now

\* start(t) past its guard
start(t) ==
    /\ taskId' = t
    /\ startTime' = now - elapsedTime
    /\ isRunning' = TRUE
    /\ interval' = FreshHandle(scheduled)
    /\ scheduled' = setInterval(scheduled, "tick", now)
    /\ calls' = <<OnStart(t)>>
    /\ localStorage' = saveState(now - elapsedTime, elapsedTime, TRUE, t, now)
    /\ ret' = "true"
    /\ UNCHANGED <<elapsedTime, now>>

\* variant: start does not look at isRunning
Start_unguarded(t) ==
    /\ call' = [op |-> "start", arg |-> t]
    /\ UNCHANGED <<throwing, ui, pc>>
    /\ start(t)

Start(t) ==
    /\ call' = [op |-> "start", arg |-> t]
    /\ UNCHANGED <<throwing, ui, pc>>
    /\ IF isRunning THEN Refuse ELSE start(t)

\* variant: resume starts over from zero
Resume_restarts ==
    /\ call' = [op |-> "resume", arg |-> Null]
    /\ UNCHANGED <<throwing, ui, pc>>
    /\ IF isRunning
       THEN Refuse
       ELSE /\ taskId' = taskId
            /\ startTime' = now
            /\ elapsedTime' = 0
            /\ isRunning' = TRUE
            /\ interval' = FreshHandle(scheduled)
            /\ scheduled' = setInterval(scheduled, "tick", now)
            /\ calls' = <<OnStart(taskId)>>
            /\ localStorage' = saveState(now, 0, TRUE, taskId, now)
            /\ ret' = "true"
            /\ UNCHANGED now

Resume ==
    /\ call' = [op |-> "resume", arg |-> Null]
    /\ UNCHANGED <<throwing, ui, pc>>
    /\ IF isRunning THEN Refuse ELSE start(taskId)

\* variant: reset leaves the snapshot in the store
reset_keepsSnapshot(iv, tbl, before) ==
    /\ isRunning' = FALSE
    /\ elapsedTime' = 0
    /\ startTime' = NullTime
    /\ taskId' = Null
    /\ scheduled' = IF iv # NoInterval THEN clearInterval(tbl, iv) ELSE tbl
    /\ interval' = NoInterval
    /\ calls' = before \o <<OnTick(0)>>
    /\ UNCHANGED <<localStorage, now>>

\* variant: reset drops the handle without cancelling the schedule
reset_keepsSchedule(iv, tbl, before) ==
    /\ isRunning' = FALSE
    /\ elapsedTime' = 0
    /\ startTime' = NullTime
    /\ taskId' = Null
    /\ scheduled' = tbl
    /\ interval' = NoInterval
    /\ calls' = before \o <<OnTick(0)>>
    /\ localStorage' = clearState
    /\ UNCHANGED now

\* reset() entered with interval handle iv and schedule table tbl, after the
\* caller has already invoked the callbacks in `before`
reset(iv, tbl, before) ==
    /\ isRunning' = FALSE
    /\ elapsedTime' = 0
    /\ startTime' = NullTime
    /\ taskId' = Null
    /\ scheduled' = IF iv # NoInterval THEN clearInterval(tbl, iv) ELSE tbl
    /\ interval' = NoInterval
    /\ calls' = before \o <<OnTick(0)>>
    /\ localStorage' = clearState
    /\ UNCHANGED now

Reset ==
    /\ call' = [op |-> "reset", arg |-> Null]
    /\ UNCHANGED <<throwing, ui, pc>>
    /\ ret' = "undefined"
    /\ reset(interval, scheduled, <<>>)

\* variant: stop resets before it notifies
Stop_resetsFirst ==
    /\ call' = [op |-> "stop", arg |-> Null]
    /\ UNCHANGED <<throwing, ui, pc>>
    /\ IF ~isRunning
       THEN Refuse
       ELSE /\ isRunning' = FALSE
            /\ elapsedTime' = 0
            /\ startTime' = NullTime
            /\ taskId' = Null
            /\ scheduled' = clearInterval(scheduled, interval)
            /\ interval' = NoInterval
            /\ calls' = <<OnTick(0), OnStop(Null, 0)>>
            /\ localStorage' = clearState
            /\ ret' = "true"
            /\ UNCHANGED now

\* stop(): the guard, the cancellation, onStop, then reset()
stop ==
    IF ~isRunning
    THEN Refuse
    ELSE /\ reset(NoInterval, clearInterval(scheduled, interval),
                  <<OnStop(taskId, elapsedTime)>>)
         /\ ret' = "true"

Stop ==
    /\ call' = [op |-> "stop", arg |-> Null]
    /\ UNCHANGED <<throwing, ui, pc>>
    /\ stop

\* variant: pause without its guard
Pause_unguarded ==
    /\ call' = [op |-> "pause", arg |-> Null]
    /\ UNCHANGED <<throwing, ui, pc>>
    /\ isRunning' = FALSE
    /\ scheduled' = clearInterval(scheduled, interval)
    /\ interval' = NoInterval
    /\ calls' = <<OnPause(taskId, elapsedTime)>>
    /\ localStorage' = saveState(startTime, elapsedTime, FALSE, taskId, now)
    /\ ret' = IF isRunning THEN "true" ELSE "false"
    /\ UNCHANGED <<startTime, elapsedTime, taskId, now>>

\* variant: pause drops the handle without cancelling the schedule
Pause_keepsSchedule ==
    /\ call' = [op |-> "pause", arg |-> Null]
    /\ UNCHANGED <<throwing, ui, pc>>
    /\ IF ~isRunning
       THEN Refuse
       ELSE /\ isRunning' = FALSE
            /\ interval' = NoInterval
            /\ calls' = <<OnPause(taskId, elapsedTime)>>
            /\ localStorage' = saveState(startTime, elapsedTime, FALSE, taskId, now)
            /\ ret' = "true"
            /\ UNCHANGED <<startTime, elapsedTime, taskId, scheduled, now>>

\* variant: pause forgets when the run began
Pause_clearsStartTime ==
    /\ call' = [op |-> "pause", arg |-> Null]
    /\ UNCHANGED <<throwing, ui, pc>>
    /\ IF ~isRunning
       THEN Refuse
       ELSE /\ isRunning' = FALSE
            /\ startTime' = NullTime
            /\ scheduled' = clearInterval(scheduled, interval)
            /\ interval' = NoInterval
            /\ calls' = <<OnPause(taskId, elapsedTime)>>
            /\ localStorage' = saveState(NullTime, elapsedTime, FALSE, taskId, now)
            /\ ret' = "true"
            /\ UNCHANGED <<elapsedTime, taskId, now>>

\* variant: pause writes to window.localStorage with no try/catch around it
Pause_throwsOnFault ==
    /\ call' = [op |-> "pause", arg |-> Null]
    /\ UNCHANGED <<throwing, ui, pc>>
    /\ IF ~isRunning
       THEN Refuse
       ELSE /\ isRunning' = FALSE
            /\ scheduled' = clearInterval(scheduled, interval)
            /\ interval' = NoInterval
            /\ calls' = <<OnPause(taskId, elapsedTime)>>
            /\ localStorage' = saveState(startTime, elapsedTime, FALSE, taskId, now)
            /\ ret' = IF "setItem" \in throwing THEN "error" ELSE "true"
            /\ UNCHANGED <<startTime, elapsedTime, taskId, now>>

\* pause(): the guard, the cancellation, onPause, then saveState()
pause ==
    IF ~isRunning
    THEN Refuse
    ELSE /\ isRunning' = FALSE
         /\ scheduled' = clearInterval(scheduled, interval)
         /\ interval' = NoInterval
         /\ calls' = <<OnPause(taskId, elapsedTime)>>
         /\ localStorage' = saveState(startTime, elapsedTime, FALSE, taskId, now)
         /\ ret' = "true"
         /\ UNCHANGED <<startTime, elapsedTime, taskId, now>>

Pause ==
    /\ call' = [op |-> "pause", arg |-> Null]
    /\ UNCHANGED <<throwing, ui, pc>>
    /\ pause

\* variant: the tick adds one period instead of reading the clock
Tick_accumulates ==
    \E s \in TickSchedules :
        /\ now >= s.due
        /\ call' = [op |-> "tick", arg |-> Null]
        /\ UNCHANGED <<throwing, ui, pc>>
        /\ ret' = "undefined"
        /\ elapsedTime' = elapsedTime + TickMs
        /\ calls' = <<OnTick(elapsedTime + TickMs)>>
        /\ localStorage' = saveState(startTime, elapsedTime + TickMs, isRunning,
                                     taskId, now)
        /\ scheduled' = Rearm(scheduled, s, now)
        /\ UNCHANGED <<startTime, isRunning, interval, taskId, now>>

\* the callback given to setInterval, fired for a schedule that is due
Tick ==
    \E s \in TickSchedules :
        /\ now >= s.due
        /\ call' = [op |-> "tick", arg |-> Null]
        /\ UNCHANGED <<throwing, ui, pc>>
        /\ ret' = "undefined"
        /\ elapsedTime' = now - Num(startTime)
        /\ calls' = <<OnTick(now - Num(startTime))>>
        /\ localStorage' = saveState(startTime, now - Num(startTime), isRunning,
                                     taskId, now)
        /\ scheduled' = Rearm(scheduled, s, now)
        /\ UNCHANGED <<startTime, isRunning, interval, taskId, now>>

\* variant: the listener refreshes a timer that is not running
VisibilityChange_unguarded ==
    \E hidden \in BOOLEAN :
        /\ call' = [op |-> "visibilitychange", arg |-> Null]
        /\ UNCHANGED <<throwing, ui, pc>>
        /\ ret' = "undefined"
        /\ IF ~hidden
           THEN /\ elapsedTime' = now - Num(startTime)
                /\ calls' = <<OnTick(now - Num(startTime))>>
           ELSE /\ calls' = <<>>
                /\ UNCHANGED elapsedTime
        /\ UNCHANGED <<startTime, isRunning, interval, taskId, localStorage,
                       scheduled, now>>

\* the visibilitychange listener of TimerUI.bindEvents
VisibilityChange ==
    \E hidden \in BOOLEAN :
        /\ call' = [op |-> "visibilitychange", arg |-> Null]
        /\ UNCHANGED <<throwing, ui, pc>>
        /\ ret' = "undefined"
        /\ IF ~hidden /\ isRunning
           THEN /\ elapsedTime' = now - Num(startTime)
                /\ calls' = <<OnTick(now - Num(startTime))>>
           ELSE /\ calls' = <<>>
                /\ UNCHANGED elapsedTime
        /\ UNCHANGED <<startTime, isRunning, interval, taskId, localStorage,
                       scheduled, now>>

\* a page with n active-timer elements is loaded: the old page's schedules
\* and unanswered requests are gone with it, localStorage stays, and
\* DOMContentLoaded builds a new TimerUI, with it a new Timer, ends init()
\* in updateUI(), and then calls initializeActiveTimers()
PageLoad(n) ==
    /\ call' = [op |-> "new", arg |-> Null]
    /\ UNCHANGED <<throwing, pc>>
    /\ ret' = "undefined"
    /\ calls' = <<>>
    /\ scheduled' = initializeActiveTimers({}, n, now)
    /\ Constructor
    /\ ui' = [form |-> ui.form, value |-> NoTask, running |-> FALSE,
              pending |-> EmptyBag]
    /\ UNCHANGED <<localStorage, now>>

\* time passes: d milliseconds
AdvanceBy(d) ==
    /\ IF d = DayMs
       THEN now \div DayMs < MaxDays
       ELSE (now % DayMs) + d <= StartEpoch + MaxQuanta * Quantum
    /\ now' = now + d
    /\ call' = [op |-> "advance", arg |-> Null]
    /\ UNCHANGED <<throwing, ui, pc>>
    /\ ret' = "undefined"
    /\ calls' = <<>>
    /\ UNCHANGED <<timer, localStorage, scheduled>>

\* time passes: a step of the clock, or a whole day
Advance == \E d \in {Quantum, DayMs} : AdvanceBy(d)

\* loadState(): adopt the stored snapshot when it says running and is less
\* than 24 hours old
LoadState ==
    /\ call' = [op |-> "loadState", arg |-> Null]
    /\ UNCHANGED <<throwing, ui, pc>>
    /\ ret' = "undefined"
    /\ calls' = <<>>
    /\ LET got == LocalStorage_get
           state == CHOOSE v \in got : TRUE
       IN  IF got # {} /\ state.isRunning /\ now - state.timestamp < DayMs
           THEN /\ startTime' = state.startTime
                /\ isRunning' = state.isRunning
                /\ taskId' = state.taskId
                /\ elapsedTime' = IF state.isRunning /\ Truthy(state.startTime)
                                  THEN now - state.startTime
                                  ELSE state.elapsedTime
           ELSE UNCHANGED <<startTime, elapsedTime, isRunning, taskId>>
    /\ UNCHANGED <<interval, localStorage, scheduled, now>>

\* window.localStorage starts to fail: from here on the methods in f throw
\* (setItem alone when the quota is exhausted, all three when storage is
\* denied, any other combination the browser may produce)
StorageFault ==
    \E f \in (SUBSET StorageMethods) \ {{}} :
        /\ throwing = {}
        /\ throwing' = f
        /\ call' = [op |-> "storage", arg |-> Null]
        /\ ret' = "undefined"
        /\ calls' = <<>>
        /\ UNCHANGED <<timer, localStorage, scheduled, now, ui, pc>>

\* another script leaves an item under 'timerState' that JSON.parse rejects
CorruptItem ==
    /\ "setItem" \notin throwing
    /\ localStorage # {Unparsable}
    /\ localStorage' = {Unparsable}
    /\ call' = [op |-> "corrupt", arg |-> Null]
    /\ ret' = "undefined"
    /\ calls' = <<>>
    /\ UNCHANGED <<timer, scheduled, now, throwing, ui, pc>>

\* resumeTimer(), called by a script of the page: schedule the tick of a
\* timer that is running, whatever this.interval holds
ResumeTimer ==
    /\ Cardinality(scheduled) < MaxSchedules
    /\ call' = [op |-> "resumeTimer", arg |-> Null]
    /\ UNCHANGED <<throwing, ui, pc>>
    /\ ret' = "undefined"
    /\ calls' = <<>>
    /\ IF Truthy(startTime) /\ isRunning
       THEN /\ interval' = FreshHandle(scheduled)
            /\ scheduled' = setInterval(scheduled, "tick", now)
       ELSE UNCHANGED <<interval, scheduled>>
    /\ UNCHANGED <<startTime, elapsedTime, isRunning, taskId, localStorage, now>>

\* saveState(), called by a script of the page
SaveState ==
    /\ call' = [op |-> "saveState", arg |-> Null]
    /\ ret' = "undefined"
    /\ calls' = <<>>
    /\ localStorage' = saveState(startTime, elapsedTime, isRunning, taskId, now)
    /\ UNCHANGED <<timer, scheduled, now, throwing, ui, pc>>

\* clearState(), called by a script of the page
ClearState ==
    /\ call' = [op |-> "clearState", arg |-> Null]
    /\ ret' = "undefined"
    /\ calls' = <<>>
    /\ localStorage' = clearState
    /\ UNCHANGED <<timer, scheduled, now, throwing, ui, pc>>

Next ==
    \/ \E t \in TaskIds \cup {Null} : Start(t)
    \/ Stop
    \/ Pause
    \/ Resume
    \/ Reset
    \/ Tick
    \/ VisibilityChange
    \/ PageLoad(0)
    \/ Advance

Spec == Init /\ [][Next]_vars

\* the Timer as an object whose every method is open to the scripts of a
\* page: the steps of the program and, besides them, direct calls of
\* loadState(), resumeTimer(), saveState() and clearState(), which no
\* statement of timer.js makes.  Its behaviours include those of the
\* program, so what holds here holds of the program.  The clock moves by
\* tick periods.
NextApi ==
    \/ \E t \in TaskIds \cup {Null} : Start(t)
    \/ Stop
    \/ Pause
    \/ Resume
    \/ Reset
    \/ LoadState
    \/ ResumeTimer
    \/ SaveState
    \/ ClearState
    \/ Tick
    \/ PageLoad(0)
    \/ AdvanceBy(TickMs)

SpecApi == Init /\ [][NextApi]_vars

\* the transitions of the table and loadState over a localStorage that can
\* fail
NextFaulty ==
    \/ Start("T1")
    \/ Stop
    \/ Pause
    \/ Reset
    \/ Tick
    \/ PageLoad(0)
    \/ LoadState
    \/ AdvanceBy(Quantum)
    \/ StorageFault
    \/ CorruptItem

SpecFaulty == Init /\ [][NextFaulty]_vars

(* ------------------------ active-timer displays ------------------------ *)
\* updateDisplay, fired for a schedule of updateActiveTimerDisplay that is
\* due: it writes the text of its element and nothing else
UpdateDisplay ==
    \E s \in scheduled \ TickSchedules :
        /\ now >= s.due
        /\ call' = [op |-> "updateDisplay", arg |-> Null]
        /\ ret' = "undefined"
        /\ calls' = <<>>
        /\ scheduled' = Rearm(scheduled, s, now)
        /\ UNCHANGED <<timer, localStorage, now, throwing, ui, pc>>

\* the first load, of a page with any number of active-timer elements
InitPage ==
    /\ startTime = NullTime
    /\ elapsedTime = 0
    /\ isRunning = FALSE
    /\ interval = NoInterval
    /\ taskId = Null
    /\ localStorage = {}
    /\ now = StartEpoch
    /\ \E n \in 0..MaxActiveTimers :
         scheduled = initializeActiveTimers({}, n, now)
    /\ throwing = {}
    /\ call = [op |-> "new", arg |-> Null]
    /\ ret = "undefined"
    /\ calls = <<>>
    /\ ui = [form |-> TRUE, value |-> NoTask, running |-> FALSE,
             pending |-> EmptyBag]
    /\ pc = "idle"

\* the calls of the Timer on pages that also show active-timer displays
NextPage ==
    \/ \E t \in TaskIds : Start(t)
    \/ Stop
    \/ Pause
    \/ Resume
    \/ Reset
    \/ Tick
    \/ UpdateDisplay
    \/ \E n \in 0..MaxActiveTimers : PageLoad(n)
    \/ AdvanceBy(TickMs)

SpecPage == InitPage /\ [][NextPage]_vars

(* ------------ stop, pause and reset, statement by statement ------------ *)
\* pc names the line last executed inside the handler that is running; a
\* handler runs to completion, so ticks, clock advances and other calls
\* happen only at pc = "idle". call, ret and calls are those of the handler.

\* pause(), lines 54-58: the guard, then this.isRunning = false
PauseSetsFlag ==
    /\ pc = "idle"
    /\ call' = [op |-> "pause", arg |-> Null]
    /\ UNCHANGED <<throwing, ui>>
    /\ IF ~isRunning
       THEN /\ Refuse
            /\ pc' = "idle"
       ELSE /\ isRunning' = FALSE
            /\ pc' = "pause:58"
            /\ ret' = "undefined"
            /\ calls' = <<>>
            /\ UNCHANGED <<startTime, elapsedTime, interval, taskId,
                           localStorage, scheduled, now>>

\* pause(), lines 59-60: clearInterval(this.interval); this.interval = null
PauseCancels ==
    /\ pc = "pause:58"
    /\ scheduled' = clearInterval(scheduled, interval)
    /\ interval' = NoInterval
    /\ pc' = "pause:60"
    /\ UNCHANGED <<startTime, elapsedTime, isRunning, taskId, localStorage,
                   now, throwing, call, ret, calls, ui>>

\* pause(), lines 62-65: onPause, saveState, return true
PauseReturns ==
    /\ pc = "pause:60"
    /\ calls' = calls \o <<OnPause(taskId, elapsedTime)>>
    /\ localStorage' = saveState(startTime, elapsedTime, isRunning, taskId, now)
    /\ ret' = "true"
    /\ pc' = "idle"
    /\ UNCHANGED <<timer, scheduled, now, throwing, call, ui>>

\* stop(), lines 40-44: the guard, then this.isRunning = false
StopSetsFlag ==
    /\ pc = "idle"
    /\ call' = [op |-> "stop", arg |-> Null]
    /\ UNCHANGED <<throwing, ui>>
    /\ IF ~isRunning
       THEN /\ Refuse
            /\ pc' = "idle"
       ELSE /\ isRunning' = FALSE
            /\ pc' = "stop:44"
            /\ ret' = "undefined"
            /\ calls' = <<>>
            /\ UNCHANGED <<startTime, elapsedTime, interval, taskId,
                           localStorage, scheduled, now>>

\* stop(), lines 45-46: clearInterval(this.interval); this.interval = null
StopCancels ==
    /\ pc = "stop:44"
    /\ scheduled' = clearInterval(scheduled, interval)
    /\ interval' = NoInterval
    /\ pc' = "stop:46"
    /\ UNCHANGED <<startTime, elapsedTime, isRunning, taskId, localStorage,
                   now, throwing, call, ret, calls, ui>>

\* stop(), lines 48-49: onStop(this.taskId, this.elapsedTime); line 50 then
\* calls reset()
StopNotifies ==
    /\ pc = "stop:46"
    /\ calls' = calls \o <<OnStop(taskId, elapsedTime)>>
    /\ pc' = "stop:49"
    /\ UNCHANGED <<timer, localStorage, scheduled, now, throwing, call, ret, ui>>

\* reset(), lines 75-78: the four fields, on a call of reset() or from stop()
ResetSetsFields ==
    /\ pc \in {"idle", "stop:49"}
    /\ isRunning' = FALSE
    /\ elapsedTime' = 0
    /\ startTime' = NullTime
    /\ taskId' = Null
    /\ IF pc = "idle"
       THEN /\ call' = [op |-> "reset", arg |-> Null]
            /\ ret' = "undefined"
            /\ calls' = <<>>
            /\ pc' = "reset:78"
       ELSE /\ UNCHANGED <<call, ret, calls>>
            /\ pc' = "stop:reset:78"
    /\ UNCHANGED <<interval, localStorage, scheduled, now, throwing, ui>>

\* reset(), lines 80-83: if (this.interval) { clearInterval; interval = null }
ResetCancels ==
    /\ pc \in {"reset:78", "stop:reset:78"}
    /\ IF interval # NoInterval
       THEN /\ scheduled' = clearInterval(scheduled, interval)
            /\ interval' = NoInterval
       ELSE UNCHANGED <<scheduled, interval>>
    /\ pc' = IF pc = "reset:78" THEN "reset:83" ELSE "stop:reset:83"
    /\ UNCHANGED <<startTime, elapsedTime, isRunning, taskId, localStorage,
                   now, throwing, call, ret, calls, ui>>

\* reset(), lines 85-86: onTick(0), clearState(); then stop() returns true
ResetReturns ==
    /\ pc \in {"reset:83", "stop:reset:83"}
    /\ calls' = calls \o <<OnTick(0)>>
    /\ localStorage' = clearState
    /\ ret' = IF pc = "stop:reset:83" THEN "true" ELSE "undefined"
    /\ pc' = "idle"
    /\ UNCHANGED <<timer, scheduled, now, throwing, call, ui>>

NextSteps ==
    \/ \E t \in TaskIds : pc = "idle" /\ Start(t)
    \/ pc = "idle" /\ Resume
    \/ pc = "idle" /\ Tick
    \/ pc = "idle" /\ Advance
    \/ PauseSetsFlag
    \/ PauseCancels
    \/ PauseReturns
    \/ StopSetsFlag
    \/ StopCancels
    \/ StopNotifies
    \/ ResetSetsFields
    \/ ResetCancels
    \/ ResetReturns

SpecSteps == Init /\ [][NextSteps]_vars

(* ------------------------------ TimerUI -------------------------------- *)
\* ui.form    : whether the page has the element #timer-form
\* ui.value   : taskSelect.value, "" for the option that names no task
\* ui.running : the isRunning that updateUI last wrote into the page: the
\*              start button and the select are disabled when it is TRUE,
\*              the stop and pause buttons when it is FALSE
\* ui.pending : the fetch requests sent and not yet answered, a bag: every
\*              click sends a request of its own and each gets its answer
\* new TimerUI() on a page with or without the form: init() ends in updateUI()
InitUI ==
    /\ startTime = NullTime
    /\ elapsedTime = 0
    /\ isRunning = FALSE
    /\ interval = NoInterval
    /\ taskId = Null
    /\ localStorage = {}
    /\ scheduled = {}
    /\ now = StartEpoch
    /\ throwing = {}
    /\ call = [op |-> "new", arg |-> Null]
    /\ ret = "undefined"
    /\ calls = <<>>
    /\ \E f \in BOOLEAN :
         ui = [form |-> f, value |-> NoTask, running |-> FALSE,
               pending |-> EmptyBag]
    /\ pc = "idle"

\* updateUI() when this.timer.isRunning is r
updateUI(r) == [ui EXCEPT !.running = r]

\* the user picks an option of the select, which is possible while the
\* select is enabled
SelectTask ==
    \E v \in TaskIds \cup {NoTask} :
        /\ ~ui.running
        /\ ui' = [ui EXCEPT !.value = v]
        /\ call' = [op |-> "select", arg |-> v]
        /\ ret' = "undefined"
        /\ calls' = <<>>
        /\ UNCHANGED <<timer, localStorage, scheduled, now, throwing, pc>>

\* handleStart(): a click on the start button while it is enabled
HandleStart ==
    /\ ~ui.running
    /\ (ui.form /\ ui.value # NoTask)
         => BagCardinality(ui.pending) < MaxInFlight
    /\ call' = [op |-> "handleStart", arg |-> ui.value]
    /\ UNCHANGED <<throwing, pc>>
    /\ IF ui.value = NoTask
       THEN /\ ret' = "undefined"
            /\ calls' = <<>>
            /\ UNCHANGED <<timer, localStorage, scheduled, now, ui>>
       ELSE IF ui.form
       THEN /\ ui' = [ui EXCEPT !.pending =
                         @ (+) SetToBag({[action |-> "start",
                                          taskId |-> ui.value]})]
            /\ ret' = "undefined"
            /\ calls' = <<>>
            /\ UNCHANGED <<timer, localStorage, scheduled, now>>
       ELSE /\ IF isRunning THEN Refuse ELSE start(ui.value)
            /\ ui' = updateUI(isRunning')

\* the answer to a start request: with response.ok, timer.start(taskId) and
\* updateUI(); otherwise (status not ok, or the fetch rejected) only a toast
StartResponse ==
    \E r \in BagToSet(ui.pending), ok \in BOOLEAN :
        /\ r.action = "start"
        /\ UNCHANGED <<throwing, pc>>
        /\ IF ok
           THEN /\ call' = [op |-> "startOk", arg |-> r.taskId]
                /\ IF isRunning THEN Refuse ELSE start(r.taskId)
                /\ ui' = [updateUI(isRunning') EXCEPT
                            !.pending = @ (-) SetToBag({r})]
           ELSE /\ call' = [op |-> "startFailed", arg |-> r.taskId]
                /\ ret' = "undefined"
                /\ calls' = <<>>
                /\ ui' = [ui EXCEPT
                            !.pending = @ (-) SetToBag({r})]
                /\ UNCHANGED <<timer, localStorage, scheduled, now>>

\* handleStop(): a click on the stop button while it is enabled
HandleStop ==
    /\ ui.running
    /\ ui.form => BagCardinality(ui.pending) < MaxInFlight
    /\ call' = [op |-> "handleStop", arg |-> Null]
    /\ UNCHANGED <<throwing, pc>>
    /\ IF ui.form
       THEN /\ ui' = [ui EXCEPT !.pending =
                         @ (+) SetToBag({[action |-> "stop",
                                          taskId |-> Null]})]
            /\ ret' = "undefined"
            /\ calls' = <<>>
            /\ UNCHANGED <<timer, localStorage, scheduled, now>>
       ELSE /\ stop
            /\ ui' = updateUI(isRunning')

\* the answer to a stop request: with response.ok, timer.stop(), updateUI()
\* and the toast 'Timer stopped and time logged'; otherwise only a toast
StopResponse ==
    \E r \in BagToSet(ui.pending), ok \in BOOLEAN :
        /\ r.action = "stop"
        /\ UNCHANGED <<throwing, pc>>
        /\ IF ok
           THEN /\ call' = [op |-> "stopOk", arg |-> Null]
                /\ stop
                /\ ui' = [updateUI(isRunning') EXCEPT
                            !.pending = @ (-) SetToBag({r})]
           ELSE /\ call' = [op |-> "stopFailed", arg |-> Null]
                /\ ret' = "undefined"
                /\ calls' = <<>>
                /\ ui' = [ui EXCEPT
                            !.pending = @ (-) SetToBag({r})]
                /\ UNCHANGED <<timer, localStorage, scheduled, now>>

\* handlePause(): a click on the pause button while it is enabled
HandlePause ==
    /\ ui.running
    /\ call' = [op |-> "handlePause", arg |-> Null]
    /\ UNCHANGED <<throwing, pc>>
    /\ pause
    /\ ui' = updateUI(isRunning')

NextUI ==
    \/ SelectTask
    \/ HandleStart
    \/ StartResponse
    \/ HandleStop
    \/ StopResponse
    \/ HandlePause
    \/ Tick
    \/ VisibilityChange
    \/ AdvanceBy(Quantum)

SpecUI == InitUI /\ [][NextUI]_vars

(* ----------------------------- formatTime ------------------------------ *)
MaxFormatHours == 101       \* the largest whole number of hours formatted

\* the arguments formatTime is applied to: whole hours up to and past a day
\* and past a hundred hours, with minutes, seconds and a fraction of a second
FormatInputs ==
    {h * 3600000 + m * 60000 + s * 1000 + f :
        h \in {0, 1, 9, 10, 23, 24, 99, 100, MaxFormatHours},
        m \in {0, 1, 9, 10, 59},
        s \in {0, 1, 9, 10, 59},
        f \in {0, 999}}

\* String.prototype.padStart(n, c): c is put in front until the length is n
RECURSIVE padStart(_, _, _)
padStart(str, n, c) == IF Len(str) >= n THEN str ELSE padStart(c \o str, n, c)

\* variant: the hours are those of the clock, wrapping at a day
formatTime_wrapsAtDay(milliseconds) ==
    LET seconds == milliseconds \div 1000
        hours   == (seconds \div 3600) % 24
        minutes == (seconds % 3600) \div 60
        secs    == seconds % 60
    IN  padStart(ToString(hours), 2, "0") \o ":" \o
        padStart(ToString(minutes), 2, "0") \o ":" \o
        padStart(ToString(secs), 2, "0")

\* formatTime(milliseconds), Math.floor of a quotient of non-negative
\* integers being \div and Number.prototype.toString being ToString
formatTime(milliseconds) ==
    LET seconds == milliseconds \div 1000
        hours   == seconds \div 3600
        minutes == (seconds % 3600) \div 60
        secs    == seconds % 60
    IN  padStart(ToString(hours), 2, "0") \o ":" \o
        padStart(ToString(minutes), 2, "0") \o ":" \o
        padStart(ToString(secs), 2, "0")

\* a call of timer.formatTime(ms); call.arg is the decimal text of ms
FormatTime ==
    \E ms \in FormatInputs :
        /\ call' = [op |-> "formatTime", arg |-> ToString(ms)]
        /\ ret' = formatTime(ms)
        /\ calls' = <<>>
        /\ UNCHANGED <<timer, localStorage, scheduled, now, throwing, ui, pc>>

SpecFormat == Init /\ [][FormatTime]_vars

(* ----------------- the three states of the transition table ------------ *)
Idle    == ~isRunning /\ elapsedTime = 0 /\ taskId = Null /\ startTime = NullTime
Running == isRunning /\ startTime # NullTime
Paused  == ~isRunning /\ elapsedTime > 0 /\ taskId # Null

\* the calls of the table, each issued only when its precondition holds,
\* with ticks and clock advances anywhere in between
NextTable ==
    \/ \E t \in TaskIds : (Idle \/ Paused) /\ Start(t)
    \/ Running /\ Pause
    \/ Paused /\ Resume
    \/ Running /\ Stop
    \/ Tick
    \/ Advance

SpecTable == Init /\ [][NextTable]_vars

(* ------------------------------- claims -------------------------------- *)

\* C1: under calls that respect the precondition table the Timer is always
\* Idle, Running or Paused (Paused meaning not running, elapsed > 0, task set).
\* Refuted: start then pause before the first tick leaves running=false,
\* elapsedTime=0, taskId set, startTime set.
C1_AlwaysInDefinedState == Idle \/ Running \/ Paused

\* C2: a Timer constructed over a fresh snapshot with running=true comes up
\* running, with elapsed = now - snapshot.startTime, the snapshot's task and
\* a live tick schedule.  Refuted: the constructor never reads the store.
C2_ConstructorRestoresRunningSnapshot ==
    (/\ call.op = "new"
     /\ localStorage # {}
     /\ Snapshot.isRunning
     /\ now - Snapshot.timestamp < DayMs)
    => /\ isRunning
       /\ elapsedTime = now - Snapshot.startTime
       /\ taskId = Snapshot.taskId
       /\ interval # NoInterval
       /\ interval \in Handles(TickSchedules)

\* C3: a Timer constructed over a snapshot that is 24h old or older, or that
\* records running=false, is Idle and has no tick schedule.
C3_StaleOrPausedSnapshotStaysIdle ==
    (/\ call.op = "new"
     /\ localStorage # {}
     /\ (now - Snapshot.timestamp >= DayMs \/ ~Snapshot.isRunning))
    => /\ Idle
       /\ interval = NoInterval
       /\ TickSchedules = {}

C3_Witness ==
    /\ call.op = "new"
    /\ localStorage # {}
    /\ Snapshot.isRunning
    /\ now - Snapshot.timestamp >= DayMs

\* C4: a successful pause hands the pause-notification the elapsed time as
\* of the pause instant, now - startTime, and leaves the timer not running.
\* Refuted: pause passes the elapsedTime left by the last tick.
C4_PauseReportsElapsedAtPauseInstant ==
    (call.op = "pause" /\ ret = "true")
    => /\ calls = <<OnPause(taskId, now - startTime)>>
       /\ ~isRunning

\* a timer that was paused and not touched since: the snapshot in the store
\* is the one that pause wrote, so its timestamp is the time of the pause
PausedSincePause ==
    /\ ~isRunning
    /\ startTime # NullTime
    /\ localStorage # {}
    /\ ~Snapshot.isRunning
    /\ Snapshot.startTime = startTime
    /\ Snapshot.taskId = taskId

\* C5: resume at time r after a pause at time p sets
\* startTime = r - (p - previous startTime), so that only the paused interval
\* is left out.  Refuted: the time between the last tick and the pause is
\* left out as well.
C5_ResumeExcludesOnlyPausedInterval ==
    [][(PausedSincePause /\ call'.op = "resume" /\ ret' = "true")
       => startTime' = now - (Snapshot.timestamp - startTime)]_vars

\* C6: start(t) on a timer that is not running returns true, sets taskId = t,
\* startTime = now - elapsedTime (the retained value), running = true,
\* leaves exactly one tick schedule, due one period later and held in
\* interval, invokes onStart(t) and nothing else, and stores a snapshot of
\* the new state with running = true.
C6_StartEffect ==
    [][(call'.op = "start" /\ ~isRunning)
       => /\ ret' = "true"
          /\ taskId' = call'.arg
          /\ startTime' = now - elapsedTime
          /\ elapsedTime' = elapsedTime
          /\ isRunning'
          /\ TickSchedules' = {[id |-> interval', due |-> now + TickMs,
                             fn |-> "tick"]}
          /\ interval' # NoInterval
          /\ calls' = <<OnStart(call'.arg)>>
          /\ localStorage' = {State(now - elapsedTime, elapsedTime, TRUE,
                                    call'.arg, now)}]_vars

C6_Witness ==
    /\ call.op = "start"
    /\ ret = "true"
    /\ elapsedTime > 0
    /\ startTime = now - elapsedTime
    /\ taskId \in TaskIds

\* C7: start or resume while running, and pause or stop while not running,
\* return false, invoke no callback, schedule or cancel no tick and leave
\* the five fields and the snapshot as they were.
C7_OutsidePreconditionNoOp ==
    [][(\/ call'.op \in {"start", "resume"} /\ isRunning
        \/ call'.op \in {"pause", "stop"} /\ ~isRunning)
       => /\ ret' = "false"
          /\ calls' = <<>>
          /\ UNCHANGED <<startTime, elapsedTime, isRunning, interval, taskId,
                         localStorage, scheduled>>]_vars

C7_Witness ==
    /\ call.op = "pause"
    /\ ret = "false"
    /\ elapsedTime > 0
    /\ localStorage # {}

\* C8: after a successful stop elapsedTime = 0, taskId and startTime are
\* null, the timer is not running, no tick schedule exists and the store
\* holds no snapshot.
C8_StopClearsEverything ==
    (call.op = "stop" /\ ret = "true")
    => /\ elapsedTime = 0
       /\ taskId = Null
       /\ startTime = NullTime
       /\ ~isRunning
       /\ interval = NoInterval
       /\ TickSchedules = {}
       /\ localStorage = {}

C8_Witness ==
    /\ call.op = "stop"
    /\ ret = "true"
    /\ Len(calls) > 0
    /\ calls[1].ms > Quantum

\* C9: a successful stop invokes onStop first, with the taskId and the
\* elapsedTime the Timer held when stop was called, then resets (onTick(0)),
\* and ends Idle with an empty store.
C9_StopNotifiesBeforeReset ==
    [][(call'.op = "stop" /\ ret' = "true")
       => /\ calls' = <<OnStop(taskId, elapsedTime), OnTick(0)>>
          /\ Idle'
          /\ localStorage' = {}]_vars

C9_Witness ==
    /\ call.op = "stop"
    /\ ret = "true"
    /\ calls = <<OnStop("T1", 0), OnTick(0)>>
    /\ Idle
    /\ localStorage = {}

\* C10: a successful pause sets running = false, cancels the tick schedule,
\* leaves elapsedTime and taskId as they were, and stores a snapshot with
\* running = false and those same elapsedTime and taskId.
C10_PauseFrame ==
    [][(call'.op = "pause" /\ ret' = "true")
       => /\ ~isRunning'
          /\ interval' = NoInterval
          /\ interval \notin Handles(TickSchedules')
          /\ TickSchedules' = {}
          /\ elapsedTime' = elapsedTime
          /\ taskId' = taskId
          /\ localStorage' # {}
          /\ ~Snapshot'.isRunning
          /\ Snapshot'.elapsedTime = elapsedTime
          /\ Snapshot'.taskId = taskId]_vars

C10_Witness ==
    /\ call.op = "pause"
    /\ ret = "true"
    /\ elapsedTime > 0
    /\ taskId \in TaskIds
    /\ localStorage # {}
    /\ ~Snapshot.isRunning

\* a timer that is not running, told apart by whether it has been reset
Halted  == ~isRunning /\ startTime # NullTime
Cleared == ~isRunning /\ startTime = NullTime

\* C11: the clock never going backwards, elapsedTime never decreases over a
\* step that leaves the timer running, and does not change over a step that
\* leaves it paused or leaves it idle.
C11_ElapsedMonotoneOrFrozen ==
    [][/\ now' >= now
       /\ (isRunning /\ isRunning') => elapsedTime' >= elapsedTime
       /\ ((Halted /\ Halted') \/ (Cleared /\ Cleared'))
              => elapsedTime' = elapsedTime]_vars

C11_Witness ==
    /\ call.op = "visibilitychange"
    /\ isRunning
    /\ calls # <<>>
    /\ elapsedTime >= 3 * Quantum

\* C12: resume after pause keeps the elapsed time of the pause as a floor:
\* the resume step leaves elapsedTime as it was and sets startTime so that
\* now - startTime equals it, and while the timer then stays running
\* startTime stays put and elapsedTime moves only upwards, never past
\* now - startTime.
C12_ResumeKeepsFloor ==
    [][/\ (Halted /\ call'.op = "resume" /\ ret' = "true")
            => /\ elapsedTime' = elapsedTime
               /\ now' - startTime' = elapsedTime
       /\ (isRunning /\ isRunning')
            => /\ startTime' = startTime
               /\ elapsedTime' >= elapsedTime
       /\ isRunning' => elapsedTime' <= now' - startTime']_vars

C12_Witness ==
    /\ call.op = "resume"
    /\ ret = "true"
    /\ isRunning
    /\ elapsedTime > 0
    /\ startTime > StartEpoch
    /\ now - startTime = elapsedTime

\* C13: a tick sets elapsedTime = now - startTime, hands that value to the
\* tick-notification and stores a snapshot that carries it.
C13_TickRecomputesFromClock ==
    [][(call'.op = "tick" /\ isRunning)
       => /\ elapsedTime' = now - startTime
          /\ calls' = <<OnTick(now - startTime)>>
          /\ localStorage' = {State(startTime, now - startTime, TRUE, taskId,
                                    now)}]_vars

\* start at StartEpoch and a first, late tick six quanta later (1000, 4000)
C13_Witness ==
    /\ call.op = "tick"
    /\ startTime = StartEpoch
    /\ now = StartEpoch + 6 * Quantum
    /\ calls = <<OnTick(6 * Quantum)>>
    /\ elapsedTime = 6 * Quantum

\* C14: reset, from whatever state, leaves no tick schedule, running=false,
\* elapsedTime=0, startTime and taskId null, invokes onTick(0) and no other
\* callback, and removes the snapshot.
C14_ResetEffect ==
    [][call'.op = "reset"
       => /\ Idle'
          /\ interval' = NoInterval
          /\ TickSchedules' = {}
          /\ calls' = <<OnTick(0)>>
          /\ localStorage' = {}]_vars

C14_Witness ==
    /\ call.op = "reset"
    /\ Idle
    /\ calls = <<OnTick(0)>>
    /\ localStorage = {}
    /\ TickSchedules = {}

\* C16: a running timer has a startTime, and within one Timer object the
\* startTime goes from set to null only in a stop or a reset.
C16_StartTimeSetWhileRunning ==
    [][/\ isRunning' => startTime' # NullTime
       /\ (startTime # NullTime /\ startTime' = NullTime /\ call'.op # "new")
              => call'.op \in {"stop", "reset"}]_vars

C16_Witness ==
    /\ call.op = "pause"
    /\ ret = "true"
    /\ ~isRunning
    /\ startTime # NullTime

\* C17: taskId is non-null whenever the timer is running or is paused with
\* retained elapsed time.  Refuted: start() with its default argument, and
\* resume() on an idle timer, run the timer with taskId = null.
C17_TaskIdSetWhileRunningOrPaused ==
    (isRunning \/ elapsedTime > 0) => taskId # Null

\* a tick or a successful transition has just been handled
Transition ==
    \/ call.op \in {"tick", "reset"}
    \/ call.op \in {"start", "stop", "pause", "resume"} /\ ret = "true"

\* C18 as stated: every tick and every successful transition invokes exactly
\* one callback.  Refuted: stop invokes onStop and then, in reset, onTick(0).
C18_ExactlyOneCallback == Transition => Len(calls) = 1

\* C18 as amended: every tick and every successful start, pause, resume and
\* reset invokes exactly one callback (onTick, onStart, onPause, onStart,
\* onTick), and a successful stop invokes exactly two, onStop then onTick.
C18_OneCallbackTwoOnStop ==
    Transition =>
        IF call.op = "stop"
        THEN /\ Len(calls) = 2
             /\ calls[1].cb = "onStop"
             /\ calls[2] = OnTick(0)
        ELSE /\ Len(calls) = 1
             /\ calls[1].cb = CASE call.op \in {"start", "resume"} -> "onStart"
                                [] call.op = "pause" -> "onPause"
                                [] OTHER -> "onTick"

C18_Witness ==
    /\ call.op = "stop"
    /\ ret = "true"
    /\ Len(calls) = 2
    /\ calls[1].cb = "onStop"
    /\ calls[1].taskId = "T2"
    /\ calls[2].cb = "onTick"

\* the snapshot in the store equals the Timer field for field
Mirrors ==
    /\ localStorage # {}
    /\ Snapshot.startTime = startTime
    /\ Snapshot.elapsedTime = elapsedTime
    /\ Snapshot.isRunning = isRunning
    /\ Snapshot.taskId = taskId

\* C19: every step of one Timer object that changes startTime, elapsedTime,
\* isRunning or taskId leaves the store either empty with the timer Idle or
\* holding a snapshot equal to the new state.  Refuted: the visibilitychange
\* listener sets elapsedTime and does not save.
C19_EveryMutationPersisted ==
    [][(/\ <<startTime, elapsedTime, isRunning, taskId>>'
              # <<startTime, elapsedTime, isRunning, taskId>>
        /\ call'.op # "new")
       => \/ localStorage' = {} /\ Idle'
          \/ Mirrors']_vars

\* C15: in every state the program reaches, isRunning holds exactly when the
\* interval handle is non-null, and exactly when a tick schedule of the
\* Timer is live (the one the handle names).  This covers the states a page
\* load reaches over a stored snapshot: the constructor is the program's
\* restore-on-load, and the Timer it builds is not running and has no
\* schedule.
C15_RunningIffScheduled ==
    /\ isRunning <=> interval # NoInterval
    /\ isRunning <=> TickSchedules # {}
    /\ Handles(TickSchedules) \subseteq {interval}

\* a page has just been loaded over a fresh snapshot that says running: the
\* new Timer is not running and has neither handle nor schedule
C15_Witness ==
    /\ call.op = "new"
    /\ localStorage # {}
    /\ Snapshot.isRunning
    /\ now - Snapshot.timestamp < DayMs
    /\ ~isRunning
    /\ interval = NoInterval
    /\ TickSchedules = {}

\* C20: a failing store is never felt by the caller.  loadState over a store
\* whose get fails, or that holds no record or one that does not parse,
\* leaves the Timer as it was and raises nothing; with set or remove failing,
\* start, tick, pause, stop and reset return what they return over a working
\* store and leave the same fields, schedule and callbacks; only the stored
\* item stays as it was where the method the operation uses throws.
C20_StoreFailuresSwallowed ==
    [][/\ ( /\ call'.op = "loadState"
            /\ \/ "getItem" \in throwing
               \/ localStorage = {}
               \/ localStorage = {Unparsable} )
            => /\ UNCHANGED <<startTime, elapsedTime, isRunning, interval,
                              taskId>>
               /\ Idle => Idle'
               /\ ret' = "undefined"
       /\ throwing # {} =>
            /\ (call'.op = "start" /\ ~isRunning)
                 => /\ ret' = "true"
                    /\ isRunning'
                    /\ taskId' = call'.arg
                    /\ startTime' = now - elapsedTime
                    /\ elapsedTime' = elapsedTime
                    /\ interval' \in Handles(TickSchedules')
                    /\ calls' = <<OnStart(call'.arg)>>
                    /\ "setItem" \in throwing => localStorage' = localStorage
            /\ call'.op = "tick"
                 => /\ elapsedTime' = now - Num(startTime)
                    /\ calls' = <<OnTick(now - Num(startTime))>>
                    /\ UNCHANGED <<startTime, isRunning, interval, taskId>>
                    /\ "setItem" \in throwing => localStorage' = localStorage
            /\ (call'.op = "pause" /\ isRunning)
                 => /\ ret' = "true"
                    /\ ~isRunning'
                    /\ interval' = NoInterval
                    /\ calls' = <<OnPause(taskId, elapsedTime)>>
                    /\ UNCHANGED <<startTime, elapsedTime, taskId>>
                    /\ "setItem" \in throwing => localStorage' = localStorage
            /\ (call'.op = "stop" /\ isRunning)
                 => /\ ret' = "true"
                    /\ Idle'
                    /\ interval' = NoInterval
                    /\ calls' = <<OnStop(taskId, elapsedTime), OnTick(0)>>
                    /\ "removeItem" \in throwing => localStorage' = localStorage
            /\ call'.op = "reset"
                 => /\ Idle'
                    /\ interval' = NoInterval
                    /\ calls' = <<OnTick(0)>>
                    /\ "removeItem" \in throwing
                         => localStorage' = localStorage]_vars

\* a pause went through with the quota exhausted: the timer is paused and
\* the store still holds the snapshot of the running timer
C20_Witness ==
    /\ throwing = {"setItem"}
    /\ call.op = "pause"
    /\ ret = "true"
    /\ ~isRunning
    /\ localStorage # {}
    /\ localStorage # {Unparsable}
    /\ Snapshot.isRunning

\* C21: for every integer ms >= 0, formatTime(ms) is "HH:MM:SS" where SS is
\* floor(ms/1000) mod 60 and MM is floor(ms/60000) mod 60, each written with
\* exactly two digits, and HH is floor(ms/3600000) written in full with a
\* leading zero below ten, so it wraps neither at 24 nor at 100 hours;
\* formatTime(3661000) is "01:01:01".
C21_FormatTimeText ==
    /\ \A ms \in FormatInputs :
         call = [op |-> "formatTime", arg |-> ToString(ms)]
           => LET SS == (ms \div 1000) % 60
                  MM == (ms \div 60000) % 60
                  HH == ms \div 3600000
              IN  ret = (IF HH < 10 THEN "0" \o ToString(HH) ELSE ToString(HH))
                        \o ":" \o ToString(MM \div 10) \o ToString(MM % 10)
                        \o ":" \o ToString(SS \div 10) \o ToString(SS % 10)
    /\ call = [op |-> "formatTime", arg |-> "3661000"] => ret = "01:01:01"

\* one hundred hours, 59 minutes, 59.999 seconds: three digits of hours
C21_Witness ==
    /\ call = [op |-> "formatTime", arg |-> "363599999"]
    /\ ret = "100:59:59"

\* C23: over start, pause, resume, stop and reset calls on one Timer at most
\* one tick schedule is live at a time, whatever other schedules the page
\* has: a start or resume that goes through finds no tick schedule live and
\* leaves exactly one, every pause, stop and reset leaves none, and the only
\* live tick schedule is the one this.interval holds, so no handle is
\* overwritten while its schedule is live.
C23_AtMostOneSchedule ==
    [][/\ Cardinality(TickSchedules') <= 1
       /\ Handles(TickSchedules') \subseteq {interval'}
       /\ (call'.op \in {"start", "resume"} /\ ret' = "true")
            => /\ TickSchedules = {}
               /\ Cardinality(TickSchedules') = 1
               /\ scheduled \subseteq scheduled'
       /\ call'.op \in {"pause", "stop", "reset"}
            => /\ TickSchedules' = {}
               /\ scheduled' = scheduled \ TickSchedules
       /\ (interval # NoInterval /\ interval' # interval)
            => interval \notin Handles(TickSchedules')]_vars

\* a second tick schedule, created by a resume after a pause cancelled the
\* first, on a page where an active-timer display has its own schedule
C23_Witness ==
    /\ call.op = "resume"
    /\ ret = "true"
    /\ Cardinality(TickSchedules) = 1
    /\ Handles(TickSchedules) = {interval}
    /\ scheduled # TickSchedules
    /\ elapsedTime > 0

\* C25: with a store that works and one Timer, whenever the Timer is Running
\* the store holds a snapshot with isRunning = true and the Timer's startTime
\* and taskId, and right after a stop that went through or a reset the store
\* holds no snapshot.
C25_SnapshotFollowsRunning ==
    /\ Running
         => /\ localStorage # {}
            /\ Snapshot.isRunning
            /\ Snapshot.startTime = startTime
            /\ Snapshot.taskId = taskId
    /\ ((call.op = "stop" /\ ret = "true") \/ call.op = "reset")
         => localStorage = {}

\* Running after a visibility change moved elapsedTime without a save: the
\* snapshot is behind on elapsedTime and still agrees on startTime and taskId
C25_Witness ==
    /\ Running
    /\ call.op = "visibilitychange"
    /\ localStorage # {}
    /\ Snapshot.elapsedTime # elapsedTime
    /\ Snapshot.startTime = startTime
    /\ Snapshot.taskId = taskId

\* C22 as stated: pause, stop and reset have cancelled the tick schedule by
\* the time they have altered a Timer field, and once one of them has
\* returned no tick runs until the next start or resume that goes through.
\* Refuted in its first half: pause and stop set isRunning = false, and reset
\* sets all four fields, while the schedule is still live; the cancellation
\* is the statement after.
C22_CancelsBeforeAlteringFields ==
    [][/\ pc' \in {"pause:58", "stop:44", "reset:78"} => TickSchedules' = {}
       /\ call'.op = "tick" => isRunning /\ pc = "idle"
       /\ (pc' = "idle" /\ ~isRunning') => TickSchedules' = {}]_vars

\* C24: in TimerUI, when the answer to a stop request arrives with
\* response.ok (and the toast 'Timer stopped and time logged' is shown) the
\* Timer is Idle, with elapsedTime 0 and taskId null, and the store holds no
\* snapshot, whatever the user did between the request and the answer.
\* Refuted: after a pause click in between, stop() returns false and the
\* Timer stays paused with its elapsed time, task and snapshot.
C24_StopOkLeavesIdle ==
    call.op = "stopOk"
      => /\ Idle
         /\ interval = NoInterval
         /\ localStorage = {}

\* C26: a start for task t2 that goes through on a timer that is not running
\* and retains elapsed time for another task t1 (the user paused, picked t2
\* and clicked Start) sets taskId to t2, leaves elapsedTime as it was and
\* sets startTime to now - elapsedTime, and runs; elapsedTime goes from a
\* positive value to 0 only in a stop that goes through (which resets).
C26_StartKeepsElapsedOfOtherTask ==
    [][/\ \A t1, t2 \in TaskIds :
            ( /\ t1 # t2
              /\ ~isRunning /\ elapsedTime > 0 /\ taskId = t1
              /\ call'.op \in {"handleStart", "startOk"}
              /\ call'.arg = t2
              /\ ret' = "true" )
            => /\ taskId' = t2
               /\ elapsedTime' = elapsedTime
               /\ startTime' = now - elapsedTime
               /\ isRunning'
               /\ calls' = <<OnStart(t2)>>
               /\ localStorage' = {State(now - elapsedTime, elapsedTime, TRUE,
                                         t2, now)}
       /\ (elapsedTime > 0 /\ elapsedTime' = 0)
            => /\ call'.op \in {"handleStop", "stopOk"}
               /\ ret' = "true"
               /\ calls' = <<OnStop(taskId, elapsedTime), OnTick(0)>>]_vars

\* task T2 was started through the page at a moment when the timer held
\* elapsed time: it runs with that time already on its clock
C26_Witness ==
    /\ call = [op |-> "startOk", arg |-> "T2"]
    /\ ret = "true"
    /\ taskId = "T2"
    /\ isRunning
    /\ elapsedTime > 0
    /\ startTime = now - elapsedTime
    /\ Snapshot.taskId = "T2"
    /\ Snapshot.elapsedTime = elapsedTime

====
